---- MODULE Spec2Model ----
(***************************************************************************)
(* Model of the card image generator of ai-daily-skill                     *)
(* (src/src/image_generator.py): the content analyser, the layout          *)
(* resolver, the dimension estimator and the request builder / HTTP client *)
(* ImageGenerator.generate.                                                *)
(*                                                                         *)
(* Representation of values                                                *)
(*   - a character is a one-character string; a line of text is the record *)
(*     [head |-> <<c1, ..., ck>>, fill |-> n], standing for the string     *)
(*     c1...ck followed by n copies of the letter "a";                     *)
(*   - a text is the record [block |-> <<line, ...>>, rep |-> r]: the      *)
(*     lines of block, r times over, joined with "\n";                     *)
(*   - the floats the program computes with are IEEE doubles, modelled     *)
(*     bit for bit (see "Python floats" below); the fontScale values,      *)
(*     which it only passes on, are in hundredths.                         *)
(***************************************************************************)
EXTENDS Integers, Sequences, FiniteSets, TLC

(***************************************************************************)
(* Bounds of the input space.                                              *)
(***************************************************************************)
MaxRepeat == 40      \* most repetitions of a block in a text
MaxFill == 46        \* longest run of letters in a line
MaxBlockLen == 2     \* most lines in a block

(***************************************************************************)
(* Class constants of ImageGenerator.                                      *)
(***************************************************************************)
MIN_WIDTH == 480
MAX_WIDTH == 720
MIN_HEIGHT == 600
MAX_HEIGHT == 3000
AVG_CHAR_WIDTH == 16

(***************************************************************************)
(* Strings.                                                                *)
(***************************************************************************)
IsSpace(c) == c \in {" ", "\t"}

RECURSIVE LStrip(_)
LStrip(s) ==
    IF s = <<>> THEN s
    ELSE IF IsSpace(Head(s)) THEN LStrip(Tail(s)) ELSE s

RECURSIVE RStrip(_)
RStrip(s) ==
    IF s = <<>> THEN s
    ELSE IF IsSpace(s[Len(s)]) THEN RStrip(SubSeq(s, 1, Len(s) - 1)) ELSE s

\* str.strip() of one line: leading whitespace goes; trailing whitespace is
\* there only when no letters follow the head.
strip(line) ==
    LET h == LStrip(line.head)
    IN  IF line.fill = 0
        THEN [head |-> RStrip(h), fill |-> 0]
        ELSE [head |-> h, fill |-> line.fill]

\* len(s)
len(line) == Len(line.head) + line.fill

CharAt(line, i) == IF i <= Len(line.head) THEN line.head[i] ELSE "a"

\* s.startswith(p), p a sequence of characters
startswith(line, p) ==
    /\ Len(p) <= len(line)
    /\ \A i \in 1..Len(p) : CharAt(line, i) = p[i]

\* content.split('\n')
split(content) ==
    LET n == Len(content.block)
    IN  [i \in 1..(n * content.rep) |-> content.block[((i - 1) % n) + 1]]

Max(a, b) == IF a >= b THEN a ELSE b
Min(a, b) == IF a <= b THEN a ELSE b

H1Mark == <<"#", " ">>
H2Mark == <<"#", "#", " ">>
H3Mark == <<"#", "#", "#", " ">>
DashMark == <<"-", " ">>
StarMark == <<"*", " ">>
BoldMark == <<"*", "*">>

(***************************************************************************)
(* Python floats (IEEE 754 doubles, round to nearest, ties to even).       *)
(*                                                                         *)
(* A float x >= 0 is the natural number x * 2^56, written in base 2^14,    *)
(* least significant digit first, without leading zeros.  Every double     *)
(* from 1/16 up to 2^14 is such a number; a quotient below 1/16 is cut to  *)
(* the unit 2^-56, and the program only compares such a quotient with 1.3  *)
(* or 1.5.                                                                 *)
(***************************************************************************)
Base == 2 ^ 14
UnitDigits == 56 \div 14       \* 2^56 = Base^4

RECURSIVE Digits(_)
Digits(n) == IF n = 0 THEN <<>> ELSE <<n % Base>> \o Digits(n \div Base)

RECURSIVE Trim(_)
Trim(a) ==
    IF a = <<>> THEN a
    ELSE IF a[Len(a)] = 0 THEN Trim(SubSeq(a, 1, Len(a) - 1)) ELSE a

Zeros(n) == [i \in 1..n |-> 0]

RECURSIVE BigAddCarry(_, _, _)
BigAddCarry(a, b, carry) ==
    IF a = <<>> /\ b = <<>> THEN Digits(carry)
    ELSE LET x == IF a = <<>> THEN 0 ELSE Head(a)
             y == IF b = <<>> THEN 0 ELSE Head(b)
             t == x + y + carry
         IN  <<t % Base>>
                \o BigAddCarry(IF a = <<>> THEN a ELSE Tail(a),
                               IF b = <<>> THEN b ELSE Tail(b), t \div Base)

BigAdd(a, b) == BigAddCarry(a, b, 0)

\* a * k, for 0 <= k < 2^16
RECURSIVE BigMulCarry(_, _, _)
BigMulCarry(a, k, carry) ==
    IF a = <<>> THEN Digits(carry)
    ELSE LET t == Head(a) * k + carry
         IN  <<t % Base>> \o BigMulCarry(Tail(a), k, t \div Base)

BigMulInt(a, k) == Trim(BigMulCarry(a, k, 0))

RECURSIVE BigMul(_, _)
BigMul(a, b) ==
    IF b = <<>> \/ a = <<>> THEN <<>>
    ELSE Trim(BigAdd(BigMulInt(a, Head(b)), <<0>> \o BigMul(a, Tail(b))))

\* quotient and remainder of a by d, for 0 < d < 2^16
RECURSIVE BigDivMod(_, _)
BigDivMod(a, d) ==
    IF a = <<>> THEN [q |-> <<>>, r |-> 0]
    ELSE LET high == BigDivMod(Tail(a), d)
             t == high.r * Base + Head(a)
         IN  [q |-> <<t \div d>> \o high.q, r |-> t % d]

RECURSIVE BitLenInt(_)
BitLenInt(n) == IF n = 0 THEN 0 ELSE 1 + BitLenInt(n \div 2)

BitLen(a) == IF a = <<>> THEN 0 ELSE 14 * (Len(a) - 1) + BitLenInt(a[Len(a)])

RECURSIVE BigGreater(_, _)
BigGreater(a, b) ==
    IF Len(a) # Len(b) THEN Len(a) > Len(b)
    ELSE IF a = <<>> THEN FALSE
    ELSE IF a[Len(a)] # b[Len(b)] THEN a[Len(a)] > b[Len(b)]
    ELSE BigGreater(SubSeq(a, 1, Len(a) - 1), SubSeq(b, 1, Len(b) - 1))

\* a rounded to 53 significant bits; inexact says that the number rounded is
\* a plus a fraction of a unit
Round53(a, inexact) ==
    LET k == BitLen(a) - 53
    IN  IF k <= 0 THEN a
        ELSE LET hd == ((k - 1) \div 14) + 1        \* digit of the half bit
                 hb == 2 ^ ((k - 1) % 14)
                 ud == (k \div 14) + 1              \* digit of the unit bit
                 ub == 2 ^ (k % 14)
                 half == (a[hd] \div hb) % 2 = 1
                 below == \/ inexact
                          \/ a[hd] % hb # 0
                          \/ \E i \in 1..(hd - 1) : a[i] # 0
                 odd == (a[ud] \div ub) % 2 = 1
                 cut == [i \in 1..Len(a) |->
                            IF i < ud THEN 0
                            ELSE IF i = ud THEN (a[i] \div ub) * ub
                            ELSE a[i]]
             IN  IF half /\ (below \/ odd)
                 THEN BigAdd(cut, Zeros(ud - 1) \o <<ub>>)
                 ELSE cut

\* float(n), 0 <= n < 2^28
Float(n) == IF n = 0 THEN <<>> ELSE Zeros(UnitDigits) \o Digits(n)

\* x + y
FAdd(x, y) == Round53(BigAdd(x, y), FALSE)

\* n * x, for an int 0 <= n < 2^16
FMulInt(n, x) == Round53(BigMulInt(x, n), FALSE)

\* x * y
FMul(x, y) ==
    LET p == Round53(BigMul(x, y), FALSE)
    IN  IF Len(p) <= UnitDigits THEN <<>> ELSE SubSeq(p, UnitDigits + 1, Len(p))

\* x / d, for an int 0 < d < 2^16
FDivInt(x, d) ==
    LET dm == BigDivMod(<<0>> \o x, d)
        q == Round53(Trim(dm.q), dm.r # 0)
    IN  IF Len(q) <= 1 THEN <<>> ELSE SubSeq(q, 2, Len(q))

\* x > y
FGreater(x, y) == BigGreater(x, y)

\* max(x, y) of Python: the first of the two unless the second is greater
FMax(x, y) == IF FGreater(y, x) THEN y ELSE x

RECURSIVE BigToInt(_)
BigToInt(a) == IF a = <<>> THEN 0 ELSE Head(a) + Base * BigToInt(Tail(a))

\* int(x)
FInt(x) ==
    IF Len(x) <= UnitDigits THEN 0
    ELSE BigToInt(SubSeq(x, UnitDigits + 1, Len(x)))

\* the float literals of the program
F0_5 == FDivInt(Float(5), 10)
F1_2 == FDivInt(Float(12), 10)
F1_3 == FDivInt(Float(13), 10)
F1_5 == FDivInt(Float(15), 10)
F2_0 == Float(2)
F2_5 == FDivInt(Float(25), 10)
F3_0 == Float(3)
PADDING_RATIO == FDivInt(Float(8), 100)
F0_4 == FDivInt(Float(4), 10)
F0_7 == FDivInt(Float(7), 10)
F0_85 == FDivInt(Float(85), 100)

(***************************************************************************)
(* ImageGenerator._analyze_content                                         *)
(***************************************************************************)
\* Complexity with the first threshold taken inclusively
Complexity_Inclusive(content_lines) ==
    IF content_lines <= 12 THEN "simple"
    ELSE IF content_lines < 22 THEN "standard"
    ELSE IF content_lines < 38 THEN "detailed"
    ELSE "complete"

\* complexity tier by number of non-blank lines: below 12, 22, 38, otherwise
Complexity(content_lines) ==
    IF content_lines < 12 THEN "simple"
    ELSE IF content_lines < 22 THEN "standard"
    ELSE IF content_lines < 38 THEN "detailed"
    ELSE "complete"

\* AnalyzeLine measuring the line as it stands, not stripped
AnalyzeLine_RawLength(acc, line) ==
    LET stripped == strip(line)
    IN  IF len(stripped) = 0 THEN acc
        ELSE LET a1 == [acc EXCEPT !.content_lines = @ + 1,
                                   !.total_chars = @ + len(line),
                                   !.max_line_length = Max(@, len(line))]
             IN  IF startswith(stripped, H1Mark)
                   THEN [a1 EXCEPT !.h1 = @ + 1]
                 ELSE IF startswith(stripped, H2Mark)
                   THEN [a1 EXCEPT !.h2 = @ + 1]
                 ELSE IF startswith(stripped, H3Mark)
                   THEN [a1 EXCEPT !.h3 = @ + 1, !.categories = @ + 1]
                 ELSE IF startswith(stripped, DashMark) \/ startswith(stripped, StarMark)
                   THEN [a1 EXCEPT !.list_items = @ + 1]
                 ELSE a1

\* one pass of the loop body over a line
AnalyzeLine(acc, line) ==
    LET stripped == strip(line)
    IN  IF len(stripped) = 0 THEN acc
        ELSE LET a1 == [acc EXCEPT !.content_lines = @ + 1,
                                   !.total_chars = @ + len(stripped),
                                   !.max_line_length = Max(@, len(stripped))]
             IN  IF startswith(stripped, H1Mark)
                   THEN [a1 EXCEPT !.h1 = @ + 1]
                 ELSE IF startswith(stripped, H2Mark)
                   THEN [a1 EXCEPT !.h2 = @ + 1]
                 ELSE IF startswith(stripped, H3Mark)
                   THEN [a1 EXCEPT !.h3 = @ + 1, !.categories = @ + 1]
                 ELSE IF startswith(stripped, DashMark) \/ startswith(stripped, StarMark)
                   THEN [a1 EXCEPT !.list_items = @ + 1]
                 ELSE a1

\* the loop over lines[lo..hi], in order, threading the accumulator (the test
\* on left has the first half evaluated before the second half starts)
RECURSIVE AnalyzeLoop(_, _, _, _)
AnalyzeLoop(lines, lo, hi, acc) ==
    IF lo > hi THEN acc
    ELSE IF lo = hi THEN AnalyzeLine(acc, lines[lo])
    ELSE LET mid == (lo + hi) \div 2
             left == AnalyzeLoop(lines, lo, mid, acc)
         IN  IF left.total_lines >= 0
             THEN AnalyzeLoop(lines, mid + 1, hi, left)
             ELSE left

analyze_content(content) ==
    LET lines == split(content)
        a == AnalyzeLoop(lines, 1, Len(lines),
                 [total_lines |-> Len(lines), content_lines |-> 0,
                  h1 |-> 0, h2 |-> 0, h3 |-> 0, list_items |-> 0,
                  categories |-> 0, max_line_length |-> 0, total_chars |-> 0,
                  complexity |-> "simple"])
    IN  [a EXCEPT !.complexity = Complexity(a.content_lines)]

(***************************************************************************)
(* ImageGenerator._get_optimal_config                                      *)
(***************************************************************************)
configs ==
    [simple   |-> [width |-> 500, padding |-> 16, fontScale |-> 100,
                   base_height |-> 150, line_height |-> 30],
     standard |-> [width |-> 560, padding |-> 18, fontScale |-> 105,
                   base_height |-> 180, line_height |-> 32],
     detailed |-> [width |-> 620, padding |-> 20, fontScale |-> 110,
                   base_height |-> 200, line_height |-> 34],
     complete |-> [width |-> 680, padding |-> 22, fontScale |-> 115,
                   base_height |-> 220, line_height |-> 36]]

\* AdjustedWidth without the cap at MAX_WIDTH
AdjustedWidth_NoCap(base_width, max_line_length) ==
    Max(base_width, max_line_length * AVG_CHAR_WIDTH)

AdjustedWidth(base_width, max_line_length) ==
    Min(Max(base_width, max_line_length * AVG_CHAR_WIDTH), MAX_WIDTH)

\* AdjustedPadding without the clamp to [14, 28]
AdjustedPadding_Unclamped(adjusted_width) ==
    FInt(FMulInt(adjusted_width, PADDING_RATIO))

AdjustedPadding(adjusted_width) ==
    Max(14, Min(FInt(FMulInt(adjusted_width, PADDING_RATIO)), 28))

\* get_optimal_config that keeps the padding of the tier's entry
get_optimal_config_TierPadding(analysis) ==
    LET base_config == IF analysis.complexity \in DOMAIN configs
                       THEN configs[analysis.complexity]
                       ELSE configs["standard"]
        adjusted_width == AdjustedWidth(base_config.width, analysis.max_line_length)
    IN  [width |-> adjusted_width,
         padding |-> base_config.padding,
         fontScale |-> base_config.fontScale,
         base_height |-> base_config.base_height,
         line_height |-> base_config.line_height,
         complexity |-> analysis.complexity]

get_optimal_config(analysis) ==
    LET base_config == IF analysis.complexity \in DOMAIN configs
                       THEN configs[analysis.complexity]
                       ELSE configs["standard"]
        adjusted_width == AdjustedWidth(base_config.width, analysis.max_line_length)
    IN  [width |-> adjusted_width,
         padding |-> AdjustedPadding(adjusted_width),
         fontScale |-> base_config.fontScale,
         base_height |-> base_config.base_height,
         line_height |-> base_config.line_height,
         complexity |-> analysis.complexity]

(***************************************************************************)
(* ImageGenerator._calculate_dimensions                                    *)
(***************************************************************************)
\* LineEstimate with a blank line adding nothing
LineEstimate_BlankFree(line, content_width) ==
    LET stripped == strip(line)
        text_len == len(stripped)
    IN  IF text_len = 0 THEN Float(0)
        ELSE IF startswith(stripped, H1Mark) THEN F3_0
        ELSE IF startswith(stripped, H2Mark) THEN F2_5
        ELSE IF startswith(stripped, H3Mark) THEN F2_0
        ELSE IF startswith(stripped, DashMark) \/ startswith(stripped, StarMark)
          THEN FMax(F1_5, FDivInt(FMulInt(text_len * AVG_CHAR_WIDTH, F1_5),
                                  content_width))
        ELSE IF startswith(stripped, BoldMark)
          THEN FMax(F1_5, FDivInt(FMulInt(text_len * AVG_CHAR_WIDTH, F1_3),
                                  content_width))
        ELSE FMax(F1_3, FDivInt(FMulInt(text_len * AVG_CHAR_WIDTH, F1_3),
                                content_width))

\* LineEstimate with a first-level heading counted as a second-level one
LineEstimate_FlatHeading(line, content_width) ==
    LET stripped == strip(line)
        text_len == len(stripped)
    IN  IF text_len = 0 THEN F0_5
        ELSE IF startswith(stripped, H1Mark) THEN F2_5
        ELSE IF startswith(stripped, H2Mark) THEN F2_5
        ELSE IF startswith(stripped, H3Mark) THEN F2_0
        ELSE IF startswith(stripped, DashMark) \/ startswith(stripped, StarMark)
          THEN FMax(F1_5, FDivInt(FMulInt(text_len * AVG_CHAR_WIDTH, F1_5),
                                  content_width))
        ELSE IF startswith(stripped, BoldMark)
          THEN FMax(F1_5, FDivInt(FMulInt(text_len * AVG_CHAR_WIDTH, F1_3),
                                  content_width))
        ELSE FMax(F1_3, FDivInt(FMulInt(text_len * AVG_CHAR_WIDTH, F1_3),
                                content_width))

\* the estimated lines one line adds
LineEstimate(line, content_width) ==
    LET stripped == strip(line)
        text_len == len(stripped)
    IN  IF text_len = 0 THEN F0_5
        ELSE IF startswith(stripped, H1Mark) THEN F3_0
        ELSE IF startswith(stripped, H2Mark) THEN F2_5
        ELSE IF startswith(stripped, H3Mark) THEN F2_0
        ELSE IF startswith(stripped, DashMark) \/ startswith(stripped, StarMark)
          THEN FMax(F1_5, FDivInt(FMulInt(text_len * AVG_CHAR_WIDTH, F1_5),
                                  content_width))
        ELSE IF startswith(stripped, BoldMark)
          THEN FMax(F1_5, FDivInt(FMulInt(text_len * AVG_CHAR_WIDTH, F1_3),
                                  content_width))
        ELSE FMax(F1_3, FDivInt(FMulInt(text_len * AVG_CHAR_WIDTH, F1_3),
                                content_width))

\* the loop over lines[lo..hi], in order, threading the running total (the
\* test on left has the first half evaluated before the second half starts)
RECURSIVE EstimateLoop(_, _, _, _, _)
EstimateLoop(lines, lo, hi, content_width, estimated_lines) ==
    IF lo > hi THEN estimated_lines
    ELSE IF lo = hi
      THEN FAdd(estimated_lines, LineEstimate(lines[lo], content_width))
    ELSE LET mid == (lo + hi) \div 2
             left == EstimateLoop(lines, lo, mid, content_width, estimated_lines)
         IN  IF Len(left) >= 0
             THEN EstimateLoop(lines, mid + 1, hi, content_width, left)
             ELSE left

\* round(x): the nearest integer, a tie going to the even one
FRound(x) ==
    LET whole == FInt(x)
        top == IF Len(x) >= UnitDigits THEN x[UnitDigits] ELSE 0
        rest == \E i \in 1..Min(Len(x), UnitDigits - 1) : x[i] # 0
        half == Base \div 2
    IN  IF top > half \/ (top = half /\ rest) THEN whole + 1
        ELSE IF top = half /\ whole % 2 = 1 THEN whole + 1
        ELSE whole

\* ContentHeight rounding to the nearest integer
ContentHeight_Rounded(estimated_lines, line_height) ==
    FRound(FMul(FMulInt(line_height, estimated_lines), F1_2))

\* int(estimated_lines * line_height * 1.2)
ContentHeight(estimated_lines, line_height) ==
    FInt(FMul(FMulInt(line_height, estimated_lines), F1_2))

\* ClampHeight without the lower bound
ClampHeight_NoFloor(total_height) == Min(total_height, MAX_HEIGHT)

ClampHeight(total_height) == Max(MIN_HEIGHT, Min(total_height, MAX_HEIGHT))

\* RatioOf with the first two tests in the other order
RatioOf_Swapped(width, total_height) ==
    LET ratio_wh == FDivInt(Float(width), total_height)
    IN  IF FGreater(ratio_wh, F0_7) THEN "3:4"
        ELSE IF FGreater(ratio_wh, F0_85) THEN "1:1"
        ELSE IF FGreater(ratio_wh, F0_5) THEN "2:3"
        ELSE IF FGreater(ratio_wh, F0_4) THEN "9:16"
        ELSE "9:19"

\* the ratio chosen for ratio_wh = width / total_height
RatioOf(width, total_height) ==
    LET ratio_wh == FDivInt(Float(width), total_height)
    IN  IF FGreater(ratio_wh, F0_85) THEN "1:1"
        ELSE IF FGreater(ratio_wh, F0_7) THEN "3:4"
        ELSE IF FGreater(ratio_wh, F0_5) THEN "2:3"
        ELSE IF FGreater(ratio_wh, F0_4) THEN "9:16"
        ELSE "9:19"

calculate_dimensions(content) ==
    LET analysis == analyze_content(content)
        opt_config == get_optimal_config(analysis)
        content_width == opt_config.width - 2 * opt_config.padding
        lines == split(content)
        estimated_lines == EstimateLoop(lines, 1, Len(lines), content_width, Float(0))
        raw_height == opt_config.base_height
                        + ContentHeight(estimated_lines, opt_config.line_height)
        total_height == ClampHeight(raw_height)
    IN  [width |-> opt_config.width,
         height |-> total_height,
         ratio |-> RatioOf(opt_config.width, total_height),
         opt_config |-> opt_config,
         analysis |-> analysis,
         content_width |-> content_width,
         estimated_lines |-> estimated_lines,
         raw_height |-> raw_height]

(***************************************************************************)
(* Input texts.                                                            *)
(***************************************************************************)
Line(head, fill) == [head |-> head, fill |-> fill]

Fills == {0, 5, 10, 28, 32, MaxFill}

Heads ==
    {<<>>, <<" ">>, <<"\t", " ">>,
     H1Mark, <<" ", "#", " ">>, <<"#">>, H2Mark, H3Mark,
     <<"#", "#", "#", "#", " ">>,
     DashMark, StarMark, <<"*">>, BoldMark}

Lines == {Line(h, f) : h \in Heads, f \in Fills}

\* the lines that blocks of several lines are made of
BlockLines ==
    {Line(<<>>, 0), Line(H1Mark, 5), Line(StarMark, 32), Line(<<>>, MaxFill)}

RECURSIVE SeqsOf(_, _)
SeqsOf(S, n) ==
    IF n = 0 THEN {<<>>}
    ELSE {Append(s, x) : s \in SeqsOf(S, n - 1), x \in S}

Blocks ==
    {<<l>> : l \in Lines} \cup UNION {SeqsOf(BlockLines, n) : n \in 2..MaxBlockLen}

Text(block, rep) == [block |-> block, rep |-> rep]

Texts == {Text(b, r) : b \in Blocks, r \in 1..MaxRepeat}

\* the texts that generate is called with
GenTexts ==
    {Text(<<Line(<<>>, 0)>>, 1),
     Text(<<Line(<<" ">>, 0)>>, 2),
     Text(<<Line(H1Mark, 5)>>, 1),
     Text(<<Line(<<>>, MaxFill)>>, 1),
     Text(<<Line(DashMark, 5), Line(<<>>, 0)>>, MaxRepeat)}

(***************************************************************************)
(* Configuration (src/src/config.py).  Floats are in hundredths or kept as *)
(* their literal.                                                          *)
(***************************************************************************)
FIREFLY_DEFAULT_CONFIG ==
    [font |-> "SourceHanSerifCN_Bold",
     align |-> "left",
     width |-> 400,
     height |-> 533,
     fontScale |-> 120,
     ratio |-> "3:4",
     padding |-> 30,
     switchConfig |-> [showIcon |-> FALSE, showTitle |-> FALSE,
                       showContent |-> TRUE, showTranslation |-> FALSE,
                       showAuthor |-> FALSE, showQRCode |-> FALSE,
                       showSignature |-> FALSE, showQuotes |-> FALSE,
                       showWatermark |-> FALSE],
     temp |-> "tempBlackSun",
     fonts |-> [title |-> "2.1329337874720125",
                content |-> "1.9079435748084854",
                translate |-> "1.1415042034904328",
                author |-> "0.801229782035275"],
     textColor |-> "rgba(0,0,0,0.8)",
     subTempId |-> "tempBlackSun",
     borderRadius |-> 15,
     color |-> "pure-ray-1",
     useFont |-> "SourceHanSerifCN_Bold",
     useLoadingFont |-> TRUE]

(***************************************************************************)
(* Arguments of generate.                                                  *)
(***************************************************************************)
\* custom_config: None, or a mapping
NoConfig == [is_none |-> TRUE, map |-> <<>>]
Config(map) == [is_none |-> FALSE, map |-> map]

OtherText == Text(<<Line(<<"x">>, 0)>>, 1)

CustomConfigs ==
    {NoConfig,
     Config(<<>>),
     Config([height |-> 900]),
     Config([width |-> 300, ratio |-> "1:1"]),
     Config([padding |-> 5, fontScale |-> 200]),
     Config([theme |-> "dark"]),
     Config([content |-> OtherText]),
     Config([font |-> "Other", height |-> 900])}

\* output_path: "" stands for None
CallerPath == "out.png"
DatePath == "docs/images/DATE.png"
CardPath == "docs/images/daily-card.png"
OutputPaths == {"", CallerPath}
Paths == {CallerPath, DatePath, CardPath}

(***************************************************************************)
(* The rendering service's answers and the JSON values in them.            *)
(***************************************************************************)
Str(text) == [type |-> "str", text |-> text]
NonStr == [type |-> "int", text |-> <<>>]
NoValue == [type |-> "none", text |-> <<>>]

ImageBytes == <<7, 8>>

\* base64 texts and the bytes they decode to
B64Table == [t \in {"Bwg="} |-> ImageBytes]

JsonBodies ==
    {[kind |-> "invalid", fields |-> <<>>],
     [kind |-> "number", fields |-> <<>>],
     [kind |-> "array", fields |-> <<>>],
     [kind |-> "object", fields |-> <<>>],
     [kind |-> "object", fields |-> [data |-> Str(<<"http", "://cdn/a.png">>)]],
     [kind |-> "object",
      fields |-> [data |-> Str(<<"data:image/", "png;base64", ",", "Bwg=">>)]],
     [kind |-> "object", fields |-> [data |-> Str(<<"data:image/", "png">>)]],
     [kind |-> "object", fields |-> [data |-> Str(<<"Bwg=">>)]],
     [kind |-> "object", fields |-> [data |-> Str(<<"Bwg">>)]],
     [kind |-> "object",
      fields |-> [data |-> NonStr, imageUrl |-> Str(<<"http", "://cdn/i.png">>)]],
     [kind |-> "object", fields |-> [data |-> NonStr]],
     [kind |-> "object", fields |-> [url |-> Str(<<"http", "://cdn/u.png">>)]],
     [kind |-> "object",
      fields |-> [imageUrl |-> Str(<<"http", "://cdn/i.png">>),
                  url |-> Str(<<"http", "://cdn/u.png">>)]],
     [kind |-> "object", fields |-> [imageUrl |-> NonStr]]}

NoBody == [kind |-> "none", fields |-> <<>>]

Response(exc, status, content_type, content, body) ==
    [exc |-> exc, status |-> status, content_type |-> content_type,
     content |-> content, body |-> body]

NoResponse == Response("none", 0, "", <<>>, NoBody)

Responses ==
    {Response("ConnectionError", 0, "", <<>>, NoBody),
     Response("Timeout", 0, "", <<>>, NoBody),
     Response("none", 500, "text/html", <<>>, NoBody),
     Response("none", 404, "application/json", <<>>,
              [kind |-> "object", fields |-> <<>>]),
     Response("none", 200, "image/png", ImageBytes, NoBody)}
    \cup {Response("none", 200, "application/json", <<>>, b) : b \in JsonBodies}

(***************************************************************************)
(* Exceptions and the except clauses of generate.                          *)
(***************************************************************************)
RequestExceptions == {"ConnectionError", "Timeout", "HTTPError"}

Exceptions ==
    RequestExceptions
        \cup {"JSONDecodeError", "TypeError", "IndexError", "binascii.Error", "OSError"}

Returned(kind, path, value) ==
    [kind |-> kind, path |-> path, value |-> value, exc |-> "none"]

ReturnNone == Returned("None", "", NoValue)
Raised(exc) == [kind |-> "raised", path |-> "", value |-> NoValue, exc |-> exc]
NoResult == Returned("pending", "", NoValue)

\* Except with the first except clause alone
Except_RequestsOnly(exc) ==
    IF exc \in RequestExceptions THEN ReturnNone
    ELSE Raised(exc)

\* what generate does with an exception raised inside its try block
Except(exc) ==
    IF exc \in RequestExceptions THEN ReturnNone
    ELSE IF exc \in Exceptions THEN ReturnNone
    ELSE Raised(exc)

(***************************************************************************)
(* ImageGenerator.generate: building the request.                          *)
(***************************************************************************)
\* dict.update
Update(d, u) ==
    [k \in (DOMAIN d) \cup (DOMAIN u) |-> IF k \in DOMAIN u THEN u[k] ELSE d[k]]

\* IsBlank without the strip
IsBlank_NoStrip(content) ==
    LET lines == split(content)
    IN  Len(lines) = 1 /\ len(lines[1]) = 0

\* not markdown_content or not markdown_content.strip()
IsBlank(content) ==
    LET lines == split(content)
    IN  \A i \in 1..Len(lines) : len(strip(lines[i])) = 0

\* if custom_config:
Truthy(custom_config) ==
    ~custom_config.is_none /\ DOMAIN custom_config.map # {}

\* BuildRequest with the overrides merged before the computed values
BuildRequest_ComputedLast(default_config, content, custom_config, d) ==
    LET copy == default_config
        computed == [width |-> d.width, height |-> d.height, ratio |-> d.ratio,
                     padding |-> d.opt_config.padding,
                     fontScale |-> d.opt_config.fontScale]
        merged == IF Truthy(custom_config) THEN Update(copy, custom_config.map)
                  ELSE copy
        sized == Update(merged, computed)
    IN  [request_data |-> Update(sized, [content |-> content]),
         default_config |-> default_config]

\* BuildRequest taking only the recognized keys of the overrides
BuildRequest_RecognizedOnly(default_config, content, custom_config, d) ==
    LET copy == default_config
        computed == [width |-> d.width, height |-> d.height, ratio |-> d.ratio,
                     padding |-> d.opt_config.padding,
                     fontScale |-> d.opt_config.fontScale]
        sized == Update(copy, computed)
        known == (DOMAIN custom_config.map) \cap DOMAIN computed
        merged == IF Truthy(custom_config)
                  THEN Update(sized, [k \in known |-> custom_config.map[k]])
                  ELSE sized
    IN  [request_data |-> Update(merged, [content |-> content]),
         default_config |-> default_config]

\* BuildRequest working on default_config itself instead of a copy
BuildRequest_NoCopy(default_config, content, custom_config, d) ==
    LET computed == [width |-> d.width, height |-> d.height, ratio |-> d.ratio,
                     padding |-> d.opt_config.padding,
                     fontScale |-> d.opt_config.fontScale]
        sized == Update(default_config, computed)
        merged == IF Truthy(custom_config) THEN Update(sized, custom_config.map)
                  ELSE sized
        request_data == Update(merged, [content |-> content])
    IN  [request_data |-> request_data, default_config |-> request_data]

\* BuildRequest with the overrides merged after the content
BuildRequest_OverridesLast(default_config, content, custom_config, d) ==
    LET copy == default_config
        computed == [width |-> d.width, height |-> d.height, ratio |-> d.ratio,
                     padding |-> d.opt_config.padding,
                     fontScale |-> d.opt_config.fontScale]
        sized == Update(Update(copy, computed), [content |-> content])
    IN  [request_data |-> IF Truthy(custom_config)
                          THEN Update(sized, custom_config.map)
                          ELSE sized,
         default_config |-> default_config]

\* the request payload, and default_config as the building leaves it
\* BuildRequest that chooses the ratio again from the merged width and height
BuildRequest_RatioRecomputed(default_config, content, custom_config, d) ==
    LET copy == default_config
        computed == [width |-> d.width, height |-> d.height, ratio |-> d.ratio,
                     padding |-> d.opt_config.padding,
                     fontScale |-> d.opt_config.fontScale]
        sized == Update(copy, computed)
        merged == IF Truthy(custom_config) THEN Update(sized, custom_config.map)
                  ELSE sized
        again == Update(merged, [ratio |-> RatioOf(merged["width"],
                                                   merged["height"])])
    IN  [request_data |-> Update(again, [content |-> content]),
         default_config |-> default_config]

BuildRequest(default_config, content, custom_config, d) ==
    LET copy == default_config
        computed == [width |-> d.width, height |-> d.height, ratio |-> d.ratio,
                     padding |-> d.opt_config.padding,
                     fontScale |-> d.opt_config.fontScale]
        sized == Update(copy, computed)
        merged == IF Truthy(custom_config) THEN Update(sized, custom_config.map)
                  ELSE sized
    IN  [request_data |-> Update(merged, [content |-> content]),
         default_config |-> default_config]

(***************************************************************************)
(* ImageGenerator.generate: reading the response.                          *)
(***************************************************************************)
StartsWithToken(text, token) == Len(text) > 0 /\ text[1] = token

\* image_data.split(",", 1)[1]: the text after the first comma
RECURSIVE AfterComma(_)
AfterComma(text) ==
    IF text = <<>> THEN [ok |-> FALSE, text |-> <<>>]
    ELSE IF Head(text) = "," THEN [ok |-> TRUE, text |-> Tail(text)]
    ELSE AfterComma(Tail(text))

\* base64.b64decode
b64decode(text) ==
    IF text = <<>> THEN [ok |-> TRUE, bytes |-> <<>>]
    ELSE IF Len(text) = 1 /\ text[1] \in DOMAIN B64Table
      THEN [ok |-> TRUE, bytes |-> B64Table[text[1]]]
    ELSE [ok |-> FALSE, bytes |-> <<>>]

Return(r) == [step |-> "return", result |-> r, path |-> "", bytes |-> <<>>]
Raise(exc) == [step |-> "raise", result |-> Raised(exc), path |-> "", bytes |-> <<>>]
Save(path, bytes) == [step |-> "save", result |-> NoResult, path |-> path, bytes |-> bytes]

\* the "data" branch of the JSON response
ReadData(image_data, output_path) ==
    IF image_data.type = "str" /\ StartsWithToken(image_data.text, "http")
      THEN Return(Returned("value", "", image_data))
    ELSE IF image_data.type = "str"
      THEN LET uri == StartsWithToken(image_data.text, "data:image/")
               cut == AfterComma(image_data.text)
               encoded == IF uri THEN cut.text ELSE image_data.text
               decoded == b64decode(encoded)
           IN  IF uri /\ ~cut.ok THEN Raise("IndexError")
               ELSE IF ~decoded.ok THEN Raise("binascii.Error")
               ELSE Save(IF output_path = "" THEN CardPath ELSE output_path,
                         decoded.bytes)
    ELSE Return(NoResult)

\* from raise_for_status to the point where a file is opened or generate returns
ReadResponse(resp, output_path) ==
    IF resp.status >= 400 THEN Raise("HTTPError")
    ELSE IF resp.content_type = "image/png"
      THEN Save(IF output_path = "" THEN DatePath ELSE output_path, resp.content)
    ELSE IF resp.body.kind = "invalid" THEN Raise("JSONDecodeError")
    ELSE IF resp.body.kind = "number" THEN Raise("TypeError")
    ELSE LET result == resp.body.fields
             keys == IF resp.body.kind = "object" THEN DOMAIN result ELSE {}
             data == IF "data" \in keys THEN ReadData(result["data"], output_path)
                     ELSE Return(NoResult)
         IN  IF data.result # NoResult \/ data.step = "save" THEN data
             ELSE IF "imageUrl" \in keys
               THEN Return(Returned("value", "", result["imageUrl"]))
             ELSE IF "url" \in keys
               THEN Return(Returned("value", "", result["url"]))
             ELSE Return(ReturnNone)

(***************************************************************************)
(* State.                                                                  *)
(***************************************************************************)
VARIABLES
    enabled,            \* self.enabled
    default_config,     \* self.default_config
    pc,                 \* where the call of generate in progress stands
    markdown_content,   \* the text argument of the call in progress
    custom_config,      \* its custom_config argument
    output_path,        \* its output_path argument and local
    dims,               \* what _calculate_dimensions returned for the text
    request_data,       \* the payload
    posted,             \* the payloads this call has posted to the service
    response,           \* the service's answer
    image_bytes,        \* the bytes to save
    files,              \* the image files on disk
    files0,             \* the files as the call in progress found them
    result,             \* what generate returned
    run,                \* the run of main in progress
    ding                \* the DingTalk notifier and its call of send_markdown

vars == <<enabled, default_config, pc, markdown_content, custom_config,
          output_path, dims, request_data, posted, response, image_bytes,
          files, files0, result,
          run, ding>>

NoDims == [width |-> 0]
NoText == Text(<<>>, 0)
Absent == [exists |-> FALSE, data |-> <<>>]
File(data) == [exists |-> TRUE, data |-> data]

\* the caller's view of a finished call
Idle ==
    /\ pc = "idle"
    /\ markdown_content = NoText
    /\ custom_config = NoConfig
    /\ output_path = ""
    /\ dims = NoDims
    /\ request_data = <<>>
    /\ posted = <<>>
    /\ response = NoResponse
    /\ image_bytes = <<>>
    /\ result = NoResult

\* what ClaudeAnalyzer.analyze returned, as far as main and the card builder
\* read it: the status, and the lengths of the date, of the summary items,
\* of each category's name and item titles, and of the keywords
AnalysisResult(status, date, summary, categories, keywords) ==
    [status |-> status, date |-> date, summary |-> summary,
     categories |-> categories, keywords |-> keywords]

NoAnalysis == AnalysisResult("none", 0, <<>>, <<>>, <<>>)

AnalysisResults ==
    {AnalysisResult("empty", 10, <<>>, <<>>, <<>>),
     AnalysisResult("success", 0, <<>>, <<>>, <<>>),
     AnalysisResult("success", 10, <<20, 30>>,
                    <<[name |-> 4, items |-> <<12, 40>>],
                      [name |-> 6, items |-> <<>>]>>,
                    <<3, 5>>)}

\* a run of main: where it stands, its configuration, what it has found,
\* the calls it has made to its collaborators in order, the exception on its
\* way to the except clauses and the call that raised it, and the exit
\* status (<<>> while the process is running)
NoRun ==
    [pc |-> "none", api_key |-> NoValue, email_enabled |-> FALSE,
     content |-> "unknown", result |-> NoAnalysis, log |-> <<>>,
     raised |-> "none", failed |-> "", image_path |-> NoResult,
     xhs_path |-> "", error_notice |-> "none", exit_code |-> <<>>]

\* a JSON number, bool or null, or the text of the digits of a number
DingValue(type, num) == [type |-> type, num |-> num]

NoDingResponse ==
    [exc |-> "none", status |-> 0, body |-> [kind |-> "none", fields |-> <<>>]]

NoDing ==
    [pc |-> "none", webhook_url |-> NoValue, secret |-> NoValue,
     enable |-> FALSE, title |-> "", content |-> "", url |-> NoValue,
     data |-> <<>>, posts |-> <<>>, response |-> NoDingResponse,
     result |-> "pending", raised |-> "none"]

Init ==
    /\ enabled \in BOOLEAN
    /\ default_config = FIREFLY_DEFAULT_CONFIG
    /\ files = [p \in Paths |-> Absent]
    /\ files0 = files
    /\ run = NoRun
    /\ ding = NoDing
    /\ Idle

\* generate is called: lines 282-314
Call(content, config, path) ==
    /\ pc = "idle"
    /\ markdown_content' = content
    /\ custom_config' = config
    /\ output_path' = path
    /\ files0' = files
    /\ IF ~enabled \/ IsBlank(content)
       THEN /\ pc' = "done"
            /\ result' = ReturnNone
            /\ UNCHANGED <<default_config, dims, request_data>>
       ELSE \E d \in {calculate_dimensions(content)} :
              \E built \in {BuildRequest(default_config, content, config, d)} :
                /\ pc' = "post"
                /\ dims' = d
                /\ request_data' = built.request_data
                /\ default_config' = built.default_config
                /\ UNCHANGED result
    /\ UNCHANGED <<ding, run, enabled, posted, response, image_bytes, files>>

\* Post posting again after an exception of requests
Post_Retry(resp) ==
    /\ pc = "post"
    /\ posted' = Append(posted, request_data)
    /\ response' = resp
    /\ IF resp.exc # "none"
       THEN /\ pc' = "post"
            /\ UNCHANGED result
       ELSE /\ pc' = "respond"
            /\ UNCHANGED result
    /\ UNCHANGED <<ding, run, enabled, default_config, markdown_content, custom_config,
                   output_path, dims, request_data, image_bytes, files, files0>>

\* requests.post: lines 320-325; resp is what comes of it, an exception of
\* requests or the service's answer
Post(resp) ==
    /\ pc = "post"
    /\ posted' = Append(posted, request_data)
    /\ response' = resp
    /\ IF resp.exc # "none"
       THEN /\ pc' = "done"
            /\ result' = Except(resp.exc)
       ELSE /\ pc' = "respond"
            /\ UNCHANGED result
    /\ UNCHANGED <<ding, run, enabled, default_config, markdown_content, custom_config,
                   output_path, dims, request_data, image_bytes, files, files0>>

\* the response is read: lines 328-345, 357-376, 385-396
Respond ==
    /\ pc = "respond"
    /\ LET r == ReadResponse(response, output_path)
       IN  CASE r.step = "return" ->
                  /\ pc' = "done"
                  /\ result' = r.result
                  /\ UNCHANGED <<output_path, image_bytes>>
             [] r.step = "raise" ->
                  /\ pc' = "done"
                  /\ result' = Except(r.result.exc)
                  /\ UNCHANGED <<output_path, image_bytes>>
             [] r.step = "save" ->
                  /\ pc' = "open"
                  /\ output_path' = r.path
                  /\ image_bytes' = r.bytes
                  /\ UNCHANGED result
    /\ UNCHANGED <<ding, run, enabled, default_config, markdown_content, custom_config,
                   dims, request_data, posted, response, files, files0>>

\* the directories are made and the file is opened for writing: lines 340,
\* 347-348, 375, 378-379
Open(ok) ==
    /\ pc = "open"
    /\ IF ok
       THEN /\ files' = [files EXCEPT ![output_path] = File(<<>>)]
            /\ pc' = "write"
            /\ UNCHANGED result
       ELSE /\ pc' = "done"
            /\ result' = Except("OSError")
            /\ UNCHANGED files
    /\ UNCHANGED <<ding, run, enabled, default_config, markdown_content, custom_config,
                   output_path, dims, request_data, posted, response,
                   image_bytes, files0>>

\* f.write(image_bytes) and the return: lines 349-353, 380-383; written is the
\* number of bytes that reached the file
Write(written) ==
    /\ pc = "write"
    /\ files' = [files EXCEPT ![output_path] = File(SubSeq(image_bytes, 1, written))]
    /\ pc' = "done"
    /\ result' = IF written = Len(image_bytes)
                 THEN Returned("path", output_path, NoValue)
                 ELSE Except("OSError")
    /\ UNCHANGED <<ding, run, enabled, default_config, markdown_content, custom_config,
                   output_path, dims, request_data, posted, response,
                   image_bytes, files0>>

\* the caller has the result; the call's locals are gone
Finish ==
    /\ pc = "done"
    /\ pc' = "idle"
    /\ markdown_content' = NoText
    /\ custom_config' = NoConfig
    /\ output_path' = ""
    /\ dims' = NoDims
    /\ request_data' = <<>>
    /\ posted' = <<>>
    /\ response' = NoResponse
    /\ image_bytes' = <<>>
    /\ result' = NoResult
    /\ files0' = files
    /\ UNCHANGED <<ding, run, enabled, default_config, files>>

Next ==
    \/ \E content \in GenTexts, config \in CustomConfigs, path \in OutputPaths :
            Call(content, config, path)
    \/ \E resp \in Responses : Post(resp)
    \/ Respond
    \/ \E ok \in BOOLEAN : Open(ok)
    \/ \E written \in 0..Len(image_bytes) : Write(written)
    \/ Finish

Spec == Init /\ [][Next]_vars

(***************************************************************************)
(* The estimator on its own: every text of Texts is sized.                 *)
(***************************************************************************)
EstInit ==
    /\ enabled = TRUE
    /\ default_config = FIREFLY_DEFAULT_CONFIG
    /\ files = [p \in Paths |-> Absent]
    /\ files0 = files
    /\ pc = "estimate"
    /\ markdown_content \in Texts
    /\ custom_config = NoConfig
    /\ output_path = ""
    /\ dims = NoDims
    /\ request_data = <<>>
    /\ posted = <<>>
    /\ response = NoResponse
    /\ image_bytes = <<>>
    /\ result = NoResult
    /\ run = NoRun
    /\ ding = NoDing

\* _calculate_dimensions(markdown_content)
Estimate ==
    /\ pc = "estimate"
    /\ dims = NoDims
    /\ dims' = calculate_dimensions(markdown_content)
    /\ UNCHANGED <<ding, run, enabled, default_config, pc, markdown_content, custom_config,
                   output_path, request_data, posted, response, image_bytes,
                   files, files0, result>>

EstNext == Estimate

EstSpec == EstInit /\ [][EstNext]_vars

(***************************************************************************)
(* ImageGenerator._build_card_markdown: the lines of the card text.  The   *)
(* texts that the result supplies are runs of letters of their length.     *)
(***************************************************************************)
FirstN(seq, n) == SubSeq(seq, 1, Min(Len(seq), n))

RECURSIVE SumOf(_)
SumOf(seq) == IF seq = <<>> THEN 0 ELSE Head(seq) + SumOf(Tail(seq))

\* "# AI Daily\n## {formatted_date}\n": three lines, the last one empty
TitleLines(date) == <<Line(H1Mark, 8), Line(H2Mark, date), Line(<<>>, 0)>>

\* "### 核心摘要", "- {item}" for the first five items, ""
SummaryLines(summary) ==
    IF summary = <<>> THEN <<>>
    ELSE <<Line(H3Mark, 4)>>
            \o [i \in 1..Len(FirstN(summary, 5)) |-> Line(DashMark, summary[i])]
            \o <<Line(<<>>, 0)>>

\* for each category that has items: "### {name}", "**{title}**" for its
\* first three items, ""
RECURSIVE CategoryLines(_)
CategoryLines(categories) ==
    IF categories = <<>> THEN <<>>
    ELSE LET cat == Head(categories)
             cat_items == FirstN(cat.items, 3)
             lines == IF cat.items = <<>> THEN <<>>
                      ELSE <<Line(H3Mark, cat.name)>>
                              \o [i \in 1..Len(cat_items) |->
                                      Line(BoldMark, cat_items[i] + 2)]
                              \o <<Line(<<>>, 0)>>
         IN  lines \o CategoryLines(Tail(categories))

\* "#kw #kw ..." for the first eight keywords
KeywordLines(keywords) ==
    IF keywords = <<>> THEN <<>>
    ELSE LET kws == FirstN(keywords, 8)
         IN  <<Line(<<"#">>, SumOf(kws) + 2 * Len(kws) - 2)>>

build_card_markdown(analysis_result) ==
    Text(TitleLines(analysis_result.date)
            \o SummaryLines(analysis_result.summary)
            \o CategoryLines(analysis_result.categories)
            \o KeywordLines(analysis_result.keywords), 1)

(***************************************************************************)
(* main (src/src/main.py).  The collaborators whose code is elsewhere      *)
(* (RSSFetcher, ClaudeAnalyzer, HTMLGenerator, EmailNotifier) and the      *)
(* cover generator are calls that return or raise.                         *)
(***************************************************************************)
MainExceptions == {"Exception", "KeyboardInterrupt"}

CoverPath == "docs/xiaohongshu/xhs-DATE.html"

GenUnchanged ==
    UNCHANGED <<ding, enabled, default_config, pc, markdown_content, custom_config,
                output_path, dims, request_data, posted, response, image_bytes,
                files, files0, result>>

\* the call of a notifier method, made only if email is configured
Notice(method) == IF run.email_enabled THEN <<method>> ELSE <<>>

\* the calls are made in order: with k = 0 all of them return and main goes
\* on at next; otherwise the k-th raises exc and main goes to its except
\* clauses
Calls(calls, k, exc, next) ==
    IF k = 0
    THEN [run EXCEPT !.log = @ \o calls, !.pc = next]
    ELSE [run EXCEPT !.log = @ \o SubSeq(calls, 1, k), !.pc = "except",
                     !.raised = exc, !.failed = calls[k]]

\* the process ends with the status code
Exit(r, code) == [r EXCEPT !.pc = "exited", !.exit_code = <<code>>]

\* os.getenv("ZHIPU_API_KEY"): None when unset, else the text of the variable
ApiKeys == {NoValue, Str(<<>>), Str(<<" ">>), Str(<<"key">>)}

\* if not ZHIPU_API_KEY: the truth value of None or of a str
HasApiKey(value) == value.type = "str" /\ value.text # <<>>

MainInit ==
    /\ enabled \in BOOLEAN
    /\ default_config = FIREFLY_DEFAULT_CONFIG
    /\ files = [p \in Paths |-> Absent]
    /\ files0 = files
    /\ run \in {[NoRun EXCEPT !.pc = "start", !.api_key = key,
                                !.email_enabled = email] :
                    key \in ApiKeys, email \in BOOLEAN}
    /\ ding = NoDing
    /\ Idle

\* MainStart where only the unset variable stops the run
MainStart_UnsetOnly ==
    /\ run.pc = "start"
    /\ run' = IF run.api_key = NoValue THEN Exit(run, 1)
              ELSE [run EXCEPT !.pc = "fetch"]
    /\ GenUnchanged

\* lines 59-73: the API key check and the components
MainStart ==
    /\ run.pc = "start"
    /\ run' = IF ~HasApiKey(run.api_key) THEN Exit(run, 1)
              ELSE [run EXCEPT !.pc = "fetch"]
    /\ GenUnchanged

\* lines 76-91: the target date and the feed
FetchRss ==
    /\ run.pc = "fetch"
    /\ \E k \in 0..2, exc \in MainExceptions :
          run' = Calls(<<"fetch", "get_date_range">>, k, exc, "find")
    /\ GenUnchanged

\* FindContent where the empty notification does not depend on the
\* configuration of email
FindContent_AlwaysNotify(found) ==
    /\ run.pc = "find"
    /\ LET calls == <<"get_content_by_date">>
                        \o IF found THEN <<>>
                           ELSE <<"send_empty", "generate_css", "generate_empty",
                                  "update_index">>
       IN  \E k \in 0..Len(calls), exc \in MainExceptions :
              run' = LET r == Calls(calls, k, exc, "analyze")
                     IN  [IF k = 0 /\ ~found THEN Exit(r, 0) ELSE r
                            EXCEPT !.content = IF k = 1 THEN @
                                               ELSE IF found THEN "found"
                                               ELSE "none"]
    /\ GenUnchanged

\* lines 93-116: the content of the target date; without content the empty
\* page is made and main returns
FindContent(found) ==
    /\ run.pc = "find"
    /\ LET calls == <<"get_content_by_date">>
                        \o IF found THEN <<>>
                           ELSE Notice("send_empty")
                                   \o <<"generate_css", "generate_empty",
                                        "update_index">>
       IN  \E k \in 0..Len(calls), exc \in MainExceptions :
              run' = LET r == Calls(calls, k, exc, "analyze")
                     IN  [IF k = 0 /\ ~found THEN Exit(r, 0) ELSE r
                            EXCEPT !.content = IF k = 1 THEN @
                                               ELSE IF found THEN "found"
                                               ELSE "none"]
    /\ GenUnchanged

\* lines 118-130: the analysis; with an empty analysis main returns
Analyze(analysis_result) ==
    /\ run.pc = "analyze"
    /\ LET empty == analysis_result.status = "empty"
           calls == <<"analyze">> \o IF empty THEN Notice("send_empty") ELSE <<>>
       IN  \E k \in 0..Len(calls), exc \in MainExceptions :
              run' = LET r == Calls(calls, k, exc, "html")
                     IN  [IF k = 0 /\ empty THEN Exit(r, 0) ELSE r
                            EXCEPT !.result = IF k = 1 THEN @ ELSE analysis_result]
    /\ GenUnchanged

\* lines 132-146: the pages
GenerateHtml ==
    /\ run.pc = "html"
    /\ \E k \in 0..2, exc \in MainExceptions :
          run' = Calls(<<"generate_css", "generate_daily">>, k, exc, "image")
    /\ GenUnchanged

\* lines 148-153, 169-171: image_enabled is ENABLE_IMAGE_GENERATION, the
\* value the generator's enabled is made of
BeginImage ==
    /\ run.pc = "image"
    /\ run' = IF enabled
              THEN [run EXCEPT !.log = Append(@, "generate_from_analysis_result"),
                               !.pc = "generate"]
              ELSE [run EXCEPT !.pc = "notify"]
    /\ GenUnchanged

\* lines 154-157 and generate_from_analysis_result: generate is called with
\* the card text and the dated path
GenerateCard ==
    /\ run.pc = "generate"
    /\ Call(build_card_markdown(run.result), NoConfig, DatePath)

\* ImageReturn where a missing image is raised as an error
ImageReturn_Fatal ==
    /\ run.pc = "generate"
    /\ pc = "done"
    /\ run' = IF result.kind = "raised" \/ result = ReturnNone
              THEN [run EXCEPT !.image_path = result, !.pc = "except",
                               !.raised = "Exception",
                               !.failed = "generate_from_analysis_result"]
              ELSE [run EXCEPT !.image_path = result, !.pc = "cover"]
    /\ pc' = "idle"
    /\ markdown_content' = NoText
    /\ custom_config' = NoConfig
    /\ output_path' = ""
    /\ dims' = NoDims
    /\ request_data' = <<>>
    /\ posted' = <<>>
    /\ response' = NoResponse
    /\ image_bytes' = <<>>
    /\ result' = NoResult
    /\ files0' = files
    /\ UNCHANGED <<ding, enabled, default_config, files>>

\* lines 158-161: generate has returned
ImageReturn ==
    /\ run.pc = "generate"
    /\ pc = "done"
    /\ run' = IF result.kind = "raised"
              THEN [run EXCEPT !.pc = "except", !.raised = "Exception",
                               !.failed = "generate_from_analysis_result"]
              ELSE [run EXCEPT !.image_path = result, !.pc = "cover"]
    /\ pc' = "idle"
    /\ markdown_content' = NoText
    /\ custom_config' = NoConfig
    /\ output_path' = ""
    /\ dims' = NoDims
    /\ request_data' = <<>>
    /\ posted' = <<>>
    /\ response' = NoResponse
    /\ image_bytes' = <<>>
    /\ result' = NoResult
    /\ files0' = files
    /\ UNCHANGED <<ding, enabled, default_config, files>>

\* lines 163-168: the Xiaohongshu cover
GenerateCover ==
    /\ run.pc = "cover"
    /\ \E k \in 0..1, exc \in MainExceptions :
          run' = LET r == Calls(<<"xhs_generate">>, k, exc, "notify")
                 IN  [r EXCEPT !.xhs_path = IF k = 0 THEN CoverPath ELSE @]
    /\ GenUnchanged

\* lines 173-192: the success notification and the normal end
Notify ==
    /\ run.pc = "notify"
    /\ LET calls == Notice("send_success")
       IN  \E k \in 0..Len(calls), exc \in MainExceptions :
              run' = LET r == Calls(calls, k, exc, "exited")
                     IN  IF k = 0 THEN Exit(r, 0) ELSE r
    /\ GenUnchanged

\* the outcome of the call of send_error in the except clause
ErrorNotice(sent) ==
    IF ~run.email_enabled THEN "none" ELSE IF sent THEN "sent" ELSE "failed"

\* HandleException where sys.exit(1) follows send_error inside the inner try:
\* when send_error raises, the exit is skipped and main returns
HandleException_ExitSkipped(sent) ==
    /\ run.pc = "except"
    /\ run' = IF run.raised = "KeyboardInterrupt" THEN Exit(run, 130)
              ELSE Exit([run EXCEPT !.log = @ \o Notice("send_error"),
                                    !.error_notice = ErrorNotice(sent)],
                        IF ErrorNotice(sent) = "failed" THEN 0 ELSE 1)
    /\ GenUnchanged

\* lines 194-211: the except clauses; send_error returns (sent) or raises,
\* and what it raises is swallowed
HandleException(sent) ==
    /\ run.pc = "except"
    /\ run' = IF run.raised = "KeyboardInterrupt" THEN Exit(run, 130)
              ELSE Exit([run EXCEPT !.log = @ \o Notice("send_error"),
                                    !.error_notice = ErrorNotice(sent)], 1)
    /\ GenUnchanged

MainNext ==
    \/ MainStart
    \/ FetchRss
    \/ \E found \in BOOLEAN : FindContent(found)
    \/ \E analysis_result \in AnalysisResults : Analyze(analysis_result)
    \/ GenerateHtml
    \/ BeginImage
    \/ GenerateCard
    \/ \E resp \in Responses : Post(resp)
    \/ Respond
    \/ \E ok \in BOOLEAN : Open(ok)
    \/ \E written \in 0..Len(image_bytes) : Write(written)
    \/ ImageReturn
    \/ GenerateCover
    \/ Notify
    \/ \E sent \in BOOLEAN : HandleException(sent)

MainSpec == MainInit /\ [][MainNext]_vars

(***************************************************************************)
(* DingTalkNotifier (src/src/dingtalk_notifier.py).  The module imports    *)
(* DINGTALK_WEBHOOK_URL, DINGTALK_SECRET and ENABLE_DINGTALK from          *)
(* src.config, which does not define them: they are taken here to be what  *)
(* the other settings of src.config are, the value of os.getenv (None or a *)
(* text) and a flag.                                                       *)
(***************************************************************************)
WebhookUrls ==
    {NoValue, Str(<<>>),
     Str(<<"https://oapi.dingtalk.com/robot/send?access_token=", "t">>)}

Secrets == {NoValue, Str(<<>>), Str(<<"SEC", "k">>)}

\* str(round(time.time() * 1000))
Timestamps == {1000, 2000}

\* the title and content arguments of send_markdown
DingTexts == {"", "## text"}

\* a or b, for None and str
PyOr(a, b) == IF a.type = "str" /\ a.text # <<>> THEN a ELSE b

\* the URL posted to: the webhook URL alone, or with the timestamp and the
\* HMAC-SHA256 signature of "{timestamp}\n{secret}" under the secret
DingUrl(base, signed, timestamp, key) ==
    [base |-> base, signed |-> signed, timestamp |-> timestamp, key |-> key]

\* _get_webhook_url
get_webhook_url(webhook_url, secret, timestamp) ==
    IF ~(secret.type = "str" /\ secret.text # <<>>)
    THEN DingUrl(webhook_url, FALSE, 0, NoValue)
    ELSE DingUrl(webhook_url, TRUE, timestamp, secret)

\* _is_configured: bool(self.webhook_url and ENABLE_DINGTALK)
is_configured(d) ==
    d.webhook_url.type = "str" /\ d.webhook_url.text # <<>> /\ d.enable

\* what response.json() gives
DingBodies ==
    {[kind |-> "invalid", fields |-> <<>>],
     [kind |-> "array", fields |-> <<>>],
     [kind |-> "null", fields |-> <<>>],
     [kind |-> "object", fields |-> <<>>],
     [kind |-> "object", fields |-> [errmsg |-> DingValue("str", 0)]]}
    \cup {[kind |-> "object",
           fields |-> [errcode |-> v, errmsg |-> DingValue("str", 0)]] :
            v \in {DingValue("int", 0), DingValue("int", 1),
                   DingValue("int", 310000), DingValue("float", 0),
                   DingValue("bool", 0), DingValue("bool", 1),
                   DingValue("str", 0), DingValue("null", 0)}}

DingExceptions ==
    {"ConnectionError", "Timeout", "JSONDecodeError", "AttributeError"}

\* what requests.post does: it raises, or gives a response
DingResponses ==
    {[exc |-> e, status |-> 0, body |-> [kind |-> "none", fields |-> <<>>]] :
        e \in {"ConnectionError", "Timeout"}}
    \cup {[exc |-> "none", status |-> st, body |-> b] :
            st \in {200, 500}, b \in DingBodies}

\* value == 0 in Python: True for the int and float zero and for False
PyEqualsZero(value) == value.type \in {"int", "float", "bool"} /\ value.num = 0

\* result.get("errcode")
GetErrcode(fields) ==
    IF "errcode" \in DOMAIN fields THEN fields["errcode"]
    ELSE DingValue("null", 0)

\* lines 89-96, after the post: the value returned or the exception raised
DingTry(resp) ==
    IF resp.exc # "none" THEN [raised |-> resp.exc, value |-> FALSE]
    ELSE IF resp.body.kind = "invalid"
    THEN [raised |-> "JSONDecodeError", value |-> FALSE]
    ELSE IF resp.body.kind # "object"
    THEN [raised |-> "AttributeError", value |-> FALSE]
    ELSE [raised |-> "none",
          value |-> PyEqualsZero(GetErrcode(resp.body.fields))]

\* DingExcept with a clause for the exceptions of requests only
DingExcept_RequestsOnly(outcome) ==
    IF outcome.raised \in {"ConnectionError", "Timeout"}
    THEN [raised |-> "none", value |-> FALSE]
    ELSE outcome

\* lines 97-99: except Exception
DingExcept(outcome) ==
    IF outcome.raised \in DingExceptions
    THEN [raised |-> "none", value |-> FALSE]
    ELSE outcome

DingUnchanged ==
    UNCHANGED <<run, enabled, default_config, pc, markdown_content,
                custom_config, output_path, dims, request_data, posted,
                response, image_bytes, files, files0, result>>

\* __init__(webhook_url, secret), lines 32-33, with the settings imported
DingInit ==
    /\ enabled \in BOOLEAN
    /\ default_config = FIREFLY_DEFAULT_CONFIG
    /\ files = [p \in Paths |-> Absent]
    /\ files0 = files
    /\ run = NoRun
    /\ Idle
    /\ ding \in {[NoDing EXCEPT !.pc = "idle",
                                 !.webhook_url = PyOr(webhook_url, url_setting),
                                 !.secret = PyOr(secret, secret_setting),
                                 !.enable = flag] :
                    webhook_url \in WebhookUrls, url_setting \in WebhookUrls,
                    secret \in Secrets, secret_setting \in Secrets,
                    flag \in BOOLEAN}

\* send_markdown(title, content), lines 76-86
SendMarkdown(title, content, timestamp) ==
    /\ ding.pc = "idle"
    /\ ding' = IF ~is_configured(ding)
               THEN [ding EXCEPT !.pc = "done", !.title = title,
                                 !.content = content, !.result = FALSE]
               ELSE [ding EXCEPT
                       !.pc = "post", !.title = title, !.content = content,
                       !.url = get_webhook_url(ding.webhook_url, ding.secret,
                                               timestamp),
                       !.data = [msgtype |-> "markdown",
                                 markdown |-> [title |-> title,
                                               text |-> content]]]
    /\ DingUnchanged

\* line 89: requests.post(url, json=data, timeout=10)
DingPost(resp) ==
    /\ ding.pc = "post"
    /\ ding' = [ding EXCEPT
                  !.pc = "answer",
                  !.posts = Append(@, [url |-> ding.url, json |-> ding.data,
                                       timeout |-> 10]),
                  !.response = resp]
    /\ DingUnchanged

\* lines 90-99: the answer is read, under the except clause
DingAnswer ==
    /\ ding.pc = "answer"
    /\ ding' = LET outcome == DingExcept(DingTry(ding.response))
               IN  [ding EXCEPT !.pc = "done", !.raised = outcome.raised,
                                !.result = IF outcome.raised = "none"
                                           THEN outcome.value ELSE @]
    /\ DingUnchanged

\* the caller has the value: the notifier is ready for another call
DingReturn ==
    /\ ding.pc = "done"
    /\ ding' = [NoDing EXCEPT !.pc = "idle", !.webhook_url = ding.webhook_url,
                              !.secret = ding.secret, !.enable = ding.enable]
    /\ DingUnchanged

DingNext ==
    \/ \E title \in DingTexts, content \in DingTexts,
          timestamp \in Timestamps : SendMarkdown(title, content, timestamp)
    \/ \E resp \in DingResponses : DingPost(resp)
    \/ DingAnswer
    \/ DingReturn

DingSpec == DingInit /\ [][DingNext]_vars

(***************************************************************************)
(* The claims.                                                             *)
(***************************************************************************)
Estimated == dims # NoDims

\* a line that holds nothing but whitespace
WhitespaceOnly(line) ==
    line.fill = 0 /\ \A i \in 1..Len(line.head) : line.head[i] \in {" ", "\t"}

\* the number of lines of a text that are not whitespace-only
NonBlankLines(content) ==
    content.rep * Cardinality({i \in 1..Len(content.block) :
                                  ~WhitespaceOnly(content.block[i])})

TierBaseWidth == [simple |-> 500, standard |-> 560, detailed |-> 620, complete |-> 680]

TierOf(n) ==
    CASE n < 12 -> "simple"
      [] 12 <= n /\ n < 22 -> "standard"
      [] 22 <= n /\ n < 38 -> "detailed"
      [] n >= 38 -> "complete"

TierRank == [simple |-> 1, standard |-> 2, detailed |-> 3, complete |-> 4]

\* C1: whatever the text, the estimated height is within [600, 3000] and the
\* estimated width is within [base width of the text's tier, 720], hence
\* within [480, 720].
C1_DimensionsInRange ==
    Estimated =>
        /\ 600 <= dims.height /\ dims.height <= 3000
        /\ TierBaseWidth[TierOf(NonBlankLines(markdown_content))] <= dims.width
        /\ dims.width <= 720
        /\ 480 <= dims.width

\* a text whose lines widen the card to the cap and whose height is cut to
\* the cap
C1_Witness ==
    /\ Estimated
    /\ dims.width = 720
    /\ dims.width > TierBaseWidth[dims.analysis.complexity]
    /\ dims.raw_height > 3000
    /\ dims.height = 3000

\* C4: the tier is decided by the number n of non-blank lines alone (simple
\* below 12, standard from 12, detailed from 22, complete from 38), and it
\* never moves back in the order simple, standard, detailed, complete as n
\* grows.
C4_TierByLineCount ==
    /\ Estimated =>
          /\ dims.analysis.content_lines = NonBlankLines(markdown_content)
          /\ dims.analysis.complexity = TierOf(NonBlankLines(markdown_content))
    /\ \A n \in 0..(MaxRepeat * MaxBlockLen) :
          /\ Complexity(n) = TierOf(n)
          /\ TierRank[Complexity(n)] <= TierRank[Complexity(n + 1)]

\* a text of exactly 12 non-blank lines, among blank ones, is standard
C4_Witness ==
    /\ Estimated
    /\ NonBlankLines(markdown_content) = 12
    /\ dims.analysis.total_lines = 24
    /\ dims.analysis.complexity = "standard"

\* the one ratio whose range holds width / height
RatioBuckets(width, height) ==
    {b \in {"1:1", "3:4", "2:3", "9:16", "9:19"} :
        \/ b = "1:1" /\ 100 * width > 85 * height
        \/ b = "3:4" /\ 10 * width > 7 * height /\ 100 * width <= 85 * height
        \/ b = "2:3" /\ 10 * width > 5 * height /\ 10 * width <= 7 * height
        \/ b = "9:16" /\ 10 * width > 4 * height /\ 10 * width <= 5 * height
        \/ b = "9:19" /\ 10 * width <= 4 * height}

\* C10: the ratio the estimator returns is the one for r = width / height of
\* the dimensions it returns: 1:1 for r > 0.85, 3:4 for 0.7 < r <= 0.85, 2:3
\* for 0.5 < r <= 0.7, 9:16 for 0.4 < r <= 0.5, 9:19 for r <= 0.4.
C10_RatioBucket ==
    Estimated => RatioBuckets(dims.width, dims.height) = {dims.ratio}

\* a card between the two lowest thresholds
C10_Witness ==
    /\ Estimated
    /\ dims.ratio = "9:16"
    /\ dims.height > MIN_HEIGHT
    /\ dims.height < MAX_HEIGHT

Called == pc # "idle" /\ pc # "estimate"
Returning == pc = "done"

\* a text that is empty or holds nothing but whitespace
BlankText(content) ==
    \A i \in 1..Len(content.block) : WhitespaceOnly(content.block[i])

\* the request has failed: no answer, or an answer with an error status
RequestFailed ==
    \/ response.exc \in {"ConnectionError", "Timeout"}
    \/ response.exc = "none" /\ response.status >= 400

\* the answer is no image and its body is no JSON, or JSON of a shape that
\* carries neither data nor imageUrl nor url
Malformed ==
    /\ response.exc = "none"
    /\ response.status = 200
    /\ response.content_type # "image/png"
    /\ \/ response.body.kind \in {"invalid", "number", "array"}
       \/ /\ response.body.kind = "object"
          /\ (DOMAIN response.body.fields) \cap {"data", "imageUrl", "url"} = {}

C3_ShortCircuit ==
    Called /\ (~enabled \/ BlankText(markdown_content)) =>
        /\ Returning
        /\ result = ReturnNone
        /\ posted = <<>>
        /\ files = files0

\* generation is enabled and the text is two lines of whitespace
C3_Witness ==
    /\ Returning
    /\ enabled
    /\ BlankText(markdown_content)
    /\ NonBlankLines(markdown_content) = 0
    /\ markdown_content.block[1].head # <<>>
    /\ result = ReturnNone

RecognizedKeys == {"width", "height", "ratio", "padding", "fontScale"}

OverrideKeys == IF custom_config.is_none THEN {} ELSE DOMAIN custom_config.map

\* C5: a recognized key of the overrides (width, height, ratio, padding,
\* fontScale) reaches the service with the caller's value, not the estimated
\* one.
C5_RecognizedOverrides ==
    \A i \in 1..Len(posted) :
        \A k \in OverrideKeys \cap RecognizedKeys :
            posted[i][k] = custom_config.map[k]

\* the overrides are {"height": 900} and the estimate is another height
C5_Witness ==
    /\ posted # <<>>
    /\ custom_config = Config([height |-> 900])
    /\ posted[1]["height"] = 900
    /\ dims.height # 900

\* C6 as stated: every key of the overrides, whatever it is, reaches the
\* service with the caller's value, and every default key that is neither
\* computed nor overridden keeps its default.
C6_Original ==
    \A i \in 1..Len(posted) :
        /\ \A k \in OverrideKeys :
              k \in DOMAIN posted[i] /\ posted[i][k] = custom_config.map[k]
        /\ \A k \in (DOMAIN FIREFLY_DEFAULT_CONFIG) \ (RecognizedKeys \cup OverrideKeys) :
              k \in DOMAIN posted[i] /\ posted[i][k] = FIREFLY_DEFAULT_CONFIG[k]

\* C6, amended: every key of the overrides other than "content", recognized
\* or not, reaches the service with the caller's value, and every default key
\* that is neither computed nor overridden keeps its default.
C6_OverridesWin ==
    \A i \in 1..Len(posted) :
        /\ \A k \in OverrideKeys \ {"content"} :
              k \in DOMAIN posted[i] /\ posted[i][k] = custom_config.map[k]
        /\ \A k \in (DOMAIN FIREFLY_DEFAULT_CONFIG) \ (RecognizedKeys \cup OverrideKeys) :
              k \in DOMAIN posted[i] /\ posted[i][k] = FIREFLY_DEFAULT_CONFIG[k]

\* the overrides hold a key the service's defaults do not know
C6_Witness ==
    /\ posted # <<>>
    /\ custom_config = Config([theme |-> "dark"])
    /\ "theme" \notin DOMAIN FIREFLY_DEFAULT_CONFIG
    /\ posted[1]["theme"] = "dark"
    /\ posted[1]["font"] = FIREFLY_DEFAULT_CONFIG["font"]

\* what a generator that has never been called builds
FreshDims == calculate_dimensions(markdown_content)
FreshRequest ==
    BuildRequest(FIREFLY_DEFAULT_CONFIG, markdown_content, custom_config,
                 FreshDims).request_data

\* C7: earlier calls leave no trace: default_config is never changed, and the
\* dimensions and the payload of a call are those a generator that has never
\* been called gives for the same text and overrides.
C7_HistoryIndependent ==
    /\ default_config = FIREFLY_DEFAULT_CONFIG
    /\ pc = "post" => dims = FreshDims /\ request_data = FreshRequest

\* a call that follows one that went as far as writing a file
C7_Witness ==
    /\ pc = "post"
    /\ \E p \in Paths : files[p].exists
    /\ request_data = FreshRequest

\* C8: a call posts at most once, and exactly once when generation is
\* enabled and the text is not blank; a request that failed is not repeated.
C8_OneRequest ==
    /\ Len(posted) <= 1
    /\ Called /\ pc # "post" /\ enabled /\ ~BlankText(markdown_content)
          => Len(posted) = 1
    /\ Returning /\ posted # <<>> /\ RequestFailed => Len(posted) = 1

\* the one request timed out
C8_Witness ==
    /\ Returning
    /\ response.exc = "Timeout"
    /\ Len(posted) = 1
    /\ result = ReturnNone

\* C9: generate returns a path only with the whole image written there, and
\* when it returns None the call has left every image file as it found it.
C9_NoPartialSuccess ==
    Returning =>
        /\ result.kind = "path" => files[result.path] = File(image_bytes)
        /\ result = ReturnNone => files = files0

\* five plain lines of ten characters each
FivePlainLines == Text(<<Line(<<>>, 10)>>, 5)

\* C12: for five plain lines of ten characters the estimator gives the simple
\* tier, width 500, 6.5 estimated lines, raw height 150 + 234 = 384 and, after
\* the clamp, height 600.
C12_FivePlainLines ==
    Estimated /\ markdown_content = FivePlainLines =>
        /\ dims.analysis.content_lines = 5
        /\ dims.analysis.max_line_length = 10
        /\ dims.analysis.complexity = "simple"
        /\ dims.width = 500
        /\ dims.estimated_lines = FDivInt(Float(13), 2)
        /\ dims.raw_height = 150 + 234
        /\ dims.height = 600

\* the five plain lines have been sized
C12_Witness ==
    /\ Estimated
    /\ markdown_content = FivePlainLines
    /\ dims.raw_height = 384
    /\ dims.height = 600

\* the one line "# Title": a first-level heading of five letters
TitleLine == Text(<<Line(H1Mark, 5)>>, 1)

\* C13: for the single line "# Title" the estimator counts 3.0 estimated
\* lines, raw height 150 + 108 = 258, height 600 after the clamp, width 500
\* and ratio 3:4.
C13_TitleOnly ==
    Estimated /\ markdown_content = TitleLine =>
        /\ dims.estimated_lines = Float(3)
        /\ dims.raw_height = 150 + 108
        /\ dims.height = 600
        /\ dims.width = 500
        /\ dims.ratio = "3:4"

\* the heading line has been sized
C13_Witness ==
    /\ Estimated
    /\ markdown_content = TitleLine
    /\ len(markdown_content.block[1]) = 7
    /\ dims.raw_height = 258
    /\ dims.ratio = "3:4"

\* the characters of a line that are left when the whitespace around it is
\* taken away
Stripped(line) ==
    LET chars == line.head \o [i \in 1..line.fill |-> "a"]
        inner == {i \in 1..Len(chars) : chars[i] \notin {" ", "\t"}}
    IN  IF inner = {} THEN <<>>
        ELSE SubSeq(chars, CHOOSE i \in inner : \A j \in inner : i <= j,
                           CHOOSE i \in inner : \A j \in inner : i >= j)

HasPrefix(chars, p) == Len(chars) >= Len(p) /\ SubSeq(chars, 1, Len(p)) = p

\* the contribution of a line by the rules of the claim, as a multiple of
\* 1 / (10 * content_width)
Contribution(line, content_width) ==
    LET s == Stripped(line)
        n == Len(s)
    IN  IF n = 0 THEN 5 * content_width
        ELSE IF HasPrefix(s, <<"#", " ">>) THEN 30 * content_width
        ELSE IF HasPrefix(s, <<"#", "#", " ">>) THEN 25 * content_width
        ELSE IF HasPrefix(s, <<"#", "#", "#", " ">>) THEN 20 * content_width
        ELSE IF HasPrefix(s, <<"-", " ">>) \/ HasPrefix(s, <<"*", " ">>)
          THEN Max(15 * content_width, n * 16 * 15)
        ELSE IF HasPrefix(s, <<"*", "*">>)
          THEN Max(15 * content_width, n * 16 * 13)
        ELSE Max(13 * content_width, n * 16 * 13)

RECURSIVE BlockContribution(_, _)
BlockContribution(block, content_width) ==
    IF block = <<>> THEN 0
    ELSE Contribution(Head(block), content_width)
            + BlockContribution(Tail(block), content_width)

\* the sum of the contributions of the lines of a text, in thousandths,
\* rounded down
ContributionMilli(content, content_width) ==
    (100 * content.rep * BlockContribution(content.block, content_width))
        \div content_width

\* a float in thousandths, rounded down
Milli(x) == FInt(FMulInt(1000, x))

TierPadding == [simple |-> 16, standard |-> 18, detailed |-> 20, complete |-> 22]

\* C15 as stated: the content width is the width minus twice the padding of
\* the tier's layout entry; 468 for a simple text at the base width 500.
C15_Original ==
    Estimated =>
        /\ dims.content_width
              = dims.width - 2 * TierPadding[dims.analysis.complexity]
        /\ dims.analysis.complexity = "simple" /\ dims.width = 500
              => dims.content_width = 468

\* C15, amended: the content width is the width minus twice the recomputed
\* padding, width * 0.08 cut to an integer and clamped to [14, 28]; 444 for
\* a simple text at the base width 500.
C15_ContentWidth ==
    Estimated =>
        /\ dims.content_width
              = dims.width - 2 * Max(14, Min((8 * dims.width) \div 100, 28))
        /\ dims.analysis.complexity = "simple" /\ dims.width = 500
              => dims.content_width = 444

\* a simple text at the base width: the padding in use is not the tier's
C15_Witness ==
    /\ Estimated
    /\ dims.analysis.complexity = "simple"
    /\ dims.width = 500
    /\ dims.opt_config.padding # TierPadding["simple"]
    /\ dims.content_width = 444

\* base_height and line_height of each tier in the layout table
TierLayout ==
    [simple   |-> [base_height |-> 150, line_height |-> 30],
     standard |-> [base_height |-> 180, line_height |-> 32],
     detailed |-> [base_height |-> 200, line_height |-> 34],
     complete |-> [base_height |-> 220, line_height |-> 36]]

\* S * line_height * 1.2 for the text sized, as the floats give it
ContentProduct ==
    FMul(FMulInt(TierLayout[dims.analysis.complexity].line_height,
                 dims.estimated_lines), F1_2)

\* C16 as stated: the height is clamp(base_height + round(S * line_height *
\* 1.2), 600, 3000), the content part rounded to the nearest integer.
C16_Original ==
    Estimated =>
        dims.height
          = Max(600, Min(TierLayout[dims.analysis.complexity].base_height
                           + FRound(ContentProduct), 3000))

\* C16, amended: the height is clamp(base_height + int(S * line_height *
\* 1.2), 600, 3000), the content part cut down to an integer c, that is
\* c <= S * line_height * 1.2 < c + 1.
C16_Truncated ==
    Estimated =>
        LET c == dims.raw_height - TierLayout[dims.analysis.complexity].base_height
        IN  /\ c >= 0
            /\ ~FGreater(Float(c), ContentProduct)
            /\ FGreater(Float(c + 1), ContentProduct)
            /\ dims.height = Max(600, Min(dims.raw_height, 3000))

\* a text whose content part has a fraction of a half or more, and whose
\* height is not clamped
C16_Witness ==
    /\ Estimated
    /\ FRound(ContentProduct) = FInt(ContentProduct) + 1
    /\ dims.raw_height > 600
    /\ dims.raw_height < 3000
    /\ dims.height = dims.raw_height

\* C17: the content field of every payload posted is the text generate was
\* called with, also when the overrides hold a "content" key of their own.
C17_ContentIsInput ==
    \A i \in 1..Len(posted) :
        /\ "content" \in DOMAIN posted[i]
        /\ posted[i]["content"] = markdown_content

\* the overrides hold another text under "content"
C17_Witness ==
    /\ posted # <<>>
    /\ "content" \in OverrideKeys
    /\ custom_config.map["content"] # markdown_content
    /\ posted[1]["content"] = markdown_content

\* the kind of a line by the first prefix its stripped form matches
KindOf(line) ==
    LET s == Stripped(line)
    IN  IF s = <<>> THEN "blank"
        ELSE IF HasPrefix(s, <<"#", " ">>) THEN "h1"
        ELSE IF HasPrefix(s, <<"#", "#", " ">>) THEN "h2"
        ELSE IF HasPrefix(s, <<"#", "#", "#", " ">>) THEN "h3"
        ELSE IF HasPrefix(s, <<"-", " ">>) \/ HasPrefix(s, <<"*", " ">>) THEN "list"
        ELSE "other"

\* the number of lines of a text that are of one of the kinds
CountKind(content, kinds) ==
    content.rep * Cardinality({i \in 1..Len(content.block) :
                                  KindOf(content.block[i]) \in kinds})

RECURSIVE BlockChars(_)
BlockChars(block) ==
    IF block = <<>> THEN 0
    ELSE Len(Stripped(Head(block))) + BlockChars(Tail(block))

\* the length of the longest stripped line of a text
LongestLine(content) ==
    LET lens == {Len(Stripped(content.block[i])) : i \in 1..Len(content.block)} \cup {0}
    IN  CHOOSE n \in lens : \A m \in lens : m <= n

\* C18: the analysis holds the number of non-blank lines, the numbers of
\* lines whose stripped form starts with "# ", "## ", "### " (first match),
\* of list lines ("- " or "* "), categories equal to the "### " count, the
\* longest and the summed stripped length of the non-blank lines; hence
\* H1 + H2 + H3 + list_items <= content_lines <= total_lines.
C18_AnalysisCounters ==
    Estimated =>
        LET a == dims.analysis
            text == markdown_content
        IN  /\ a.total_lines = text.rep * Len(text.block)
            /\ a.content_lines = CountKind(text, {"h1", "h2", "h3", "list", "other"})
            /\ a.h1 = CountKind(text, {"h1"})
            /\ a.h2 = CountKind(text, {"h2"})
            /\ a.h3 = CountKind(text, {"h3"})
            /\ a.list_items = CountKind(text, {"list"})
            /\ a.categories = a.h3
            /\ a.max_line_length = LongestLine(text)
            /\ a.total_chars = text.rep * BlockChars(text.block)
            /\ a.h1 + a.h2 + a.h3 + a.list_items <= a.content_lines
            /\ a.content_lines <= a.total_lines

\* indented headings: counted as headings, measured without the indent
C18_Witness ==
    /\ Estimated
    /\ markdown_content = Text(<<Line(<<" ", "#", " ">>, 5)>>, 3)
    /\ dims.analysis.h1 = 3
    /\ dims.analysis.max_line_length = 7
    /\ dims.analysis.total_chars = 21

\* the service answered with a success status
Answered ==
    /\ Returning
    /\ posted # <<>>
    /\ response.exc = "none"
    /\ response.status < 400

\* the fields of the JSON body when it is an object, none otherwise
BodyFields ==
    IF response.body.kind = "object" THEN response.body.fields ELSE <<>>

IsHttp(value) ==
    value.type = "str" /\ Len(value.text) > 0 /\ value.text[1] = "http"

\* the result is a local path with the bytes saved there, or None when the
\* saving or the decoding failed
SavedOrFailed ==
    \/ result.kind = "path" /\ files[result.path] = File(image_bytes)
    \/ result = ReturnNone

\* C19: on a success status the result is chosen in the order: an image
\* body is saved and its path returned; else a string "data" starting with
\* "http" is returned; else any other string "data" is decoded, saved and its
\* path returned; else "imageUrl", then "url" is returned; else None.  What
\* is returned is a local path, a remote URL (a string) or None.
C19_ResponseOrder ==
    Answered =>
        LET fields == BodyFields
            keys == DOMAIN fields
            string_data == "data" \in keys /\ fields["data"].type = "str"
        IN  /\ IF response.content_type = "image/png" THEN SavedOrFailed
               ELSE IF string_data /\ IsHttp(fields["data"])
                 THEN result = Returned("value", "", fields["data"])
               ELSE IF string_data THEN SavedOrFailed
               ELSE IF "imageUrl" \in keys
                 THEN result = Returned("value", "", fields["imageUrl"])
               ELSE IF "url" \in keys
                 THEN result = Returned("value", "", fields["url"])
               ELSE result = ReturnNone
            /\ \/ result.kind = "path"
               \/ result.kind = "value" /\ result.value.type = "str"
               \/ result = ReturnNone

\* the call is in the log of the run
InLog(call) == \E i \in 1..Len(run.log) : run.log[i] = call

\* the image step of the run is over and the card image is None
ImageMissing ==
    /\ enabled
    /\ run.image_path = ReturnNone
    /\ run.pc \in {"cover", "notify", "except", "exited"}

\* C11: in main a missing card image is not fatal.  When image generation
\* is enabled and generate_from_analysis_result has returned None, the image
\* step is never what fails; the Xiaohongshu cover is generated next; the
\* success notification is sent, when email is configured, as soon as the
\* cover generation has returned; and the run that no later call has made
\* raise ends with status 0, the cover made and the success notification as
\* its last call exactly when email is configured.
C11_MissingImageNotFatal ==
    ImageMissing =>
        /\ run.failed \in {"", "xhs_generate", "send_success"}
        /\ run.pc # "cover" => InLog("xhs_generate")
        /\ run.pc = "exited" /\ run.email_enabled /\ run.failed # "xhs_generate"
              => InLog("send_success")
        /\ run.pc = "exited" /\ run.raised = "none"
              => /\ run.exit_code = <<0>>
                 /\ run.xhs_path = CoverPath
                 /\ InLog("send_success") <=> run.email_enabled
                 /\ run.email_enabled
                       => run.log[Len(run.log)] = "send_success"
        /\ run.pc = "exited" /\ run.exit_code # <<0>> => run.raised # "none"

C11_Witness ==
    /\ ImageMissing
    /\ run.pc = "exited"
    /\ run.exit_code = <<0>>
    /\ run.email_enabled
    /\ run.xhs_path = CoverPath
    /\ InLog("send_success")

\* C20: when get_content_by_date has found no content for the target date,
\* the run never calls the analyzer, the daily page, the image generator,
\* the cover generator or send_success, and nothing is posted; send_empty is
\* called exactly when email is configured; and the run in which no call
\* raised ends with status 0 after, in this order, the empty notification
\* (if email is configured), the CSS, the empty page and the index update,
\* the only index update main makes, the one with the placeholder summary.
C20_NoContent ==
    run.content = "none" =>
        /\ \A call \in {"analyze", "generate_daily",
                         "generate_from_analysis_result", "xhs_generate",
                         "send_success"} : ~InLog(call)
        /\ pc = "idle" /\ posted = <<>>
        /\ run.image_path = NoResult /\ run.xhs_path = ""
        /\ run.result = NoAnalysis
        /\ InLog("send_empty") <=> run.email_enabled
        /\ run.pc \in {"except", "exited"}
        /\ run.pc = "exited" /\ run.raised = "none"
              => /\ run.exit_code = <<0>>
                 /\ run.log = <<"fetch", "get_date_range", "get_content_by_date">>
                                  \o Notice("send_empty")
                                  \o <<"generate_css", "generate_empty",
                                       "update_index">>
        /\ run.pc = "exited" /\ run.exit_code # <<0>> => run.raised # "none"

C20_Witness ==
    /\ run.content = "none"
    /\ run.pc = "exited"
    /\ run.exit_code = <<0>>
    /\ run.email_enabled
    /\ run.log = <<"fetch", "get_date_range", "get_content_by_date",
                   "send_empty", "generate_css", "generate_empty",
                   "update_index">>

\* the calls main makes inside its try block
TrySteps ==
    {"fetch", "get_date_range", "get_content_by_date", "send_empty",
     "generate_css", "generate_empty", "update_index", "analyze",
     "generate_daily", "generate_from_analysis_result", "xhs_generate",
     "send_success"}

\* C21: when a step of main after the API-key check has raised an exception
\* that is not KeyboardInterrupt, the process ends with status 1, send_error
\* has been called exactly when email is configured, and whether send_error
\* returned or raised makes no difference to the status; and a run that did
\* pass the API-key check ends with status 1 in that case only.
C21_ExceptionExitsOne ==
    /\ run.raised # "none" => HasApiKey(run.api_key) /\ run.failed \in TrySteps
    /\ run.pc = "exited" /\ run.raised = "Exception"
          => /\ run.exit_code = <<1>>
             /\ InLog("send_error") <=> run.email_enabled
             /\ run.error_notice \in {"sent", "failed"} <=> run.email_enabled
             /\ run.email_enabled => run.log[Len(run.log)] = "send_error"
    /\ run.pc = "exited" /\ run.raised # "Exception"
          => ~InLog("send_error") /\ run.error_notice = "none"
    /\ run.pc = "exited" /\ HasApiKey(run.api_key) /\ run.exit_code = <<1>>
          => run.raised = "Exception"

\* a step has raised, email is configured and send_error has raised too
C21_Witness ==
    /\ run.pc = "exited"
    /\ run.raised = "Exception"
    /\ run.failed = "generate_daily"
    /\ run.email_enabled
    /\ run.error_notice = "failed"
    /\ run.exit_code = <<1>>

\* C22: when ZHIPU_API_KEY is unset or empty, the run ends with status 1
\* at the API-key check: no collaborator is ever called (no fetch, no
\* analysis, no page, no notification), the image generator is never
\* called, nothing is posted and no file is written.
C22_NoApiKey ==
    run.pc # "none" /\ run.api_key \in {NoValue, Str(<<>>)} =>
        /\ run.pc \in {"start", "exited"}
        /\ run.pc = "exited" => run.exit_code = <<1>>
        /\ run.log = <<>>
        /\ run.raised = "none" /\ run.error_notice = "none"
        /\ run.content = "unknown" /\ run.result = NoAnalysis
        /\ run.image_path = NoResult /\ run.xhs_path = ""
        /\ pc = "idle" /\ posted = <<>>
        /\ \A p \in Paths : files[p] = Absent

C22_Witness ==
    /\ run.api_key = Str(<<>>)
    /\ run.email_enabled
    /\ run.pc = "exited"
    /\ run.exit_code = <<1>>
    /\ run.log = <<>>

\* the answer of the service is a JSON object whose errcode equals 0
ErrcodeZero(resp) ==
    /\ resp.exc = "none"
    /\ resp.body.kind = "object"
    /\ "errcode" \in DOMAIN resp.body.fields
    /\ resp.body.fields["errcode"].type \in {"int", "float", "bool"}
    /\ resp.body.fields["errcode"].num = 0

\* the notifier has a webhook URL and DingTalk is enabled
DingConfigured ==
    /\ ding.webhook_url # NoValue
    /\ ding.webhook_url # Str(<<>>)
    /\ ding.enable

\* C23: send_markdown never raises.  Not configured, it returns False and
\* posts nothing.  Configured, it posts exactly once, with the timeout 10,
\* and returns True exactly when the answer is a JSON object whose errcode
\* equals 0; any other errcode, no errcode, an answer that is not a JSON
\* object and an exception of the post all give False.
C23_SendMarkdown ==
    /\ ding.raised = "none"
    /\ Len(ding.posts) <= 1
    /\ ding.pc \in {"idle", "post"} => ding.posts = <<>>
    /\ ding.pc = "answer" => Len(ding.posts) = 1
    /\ ding.pc = "done"
          => /\ ding.result \in BOOLEAN
             /\ ~DingConfigured => ding.result = FALSE /\ ding.posts = <<>>
             /\ DingConfigured
                   => /\ Len(ding.posts) = 1
                      /\ ding.posts[1].timeout = 10
                      /\ ding.posts[1].json.markdown.title = ding.title
                      /\ ding.posts[1].json.markdown.text = ding.content
                      /\ ding.result <=> ErrcodeZero(ding.response)

\* a configured notifier was answered with an errcode other than 0
C23_Witness ==
    /\ ding.pc = "done"
    /\ DingConfigured
    /\ ding.url.signed
    /\ Len(ding.posts) = 1
    /\ ding.response.exc = "none"
    /\ ding.response.body.kind = "object"
    /\ GetErrcode(ding.response.body.fields) = DingValue("int", 310000)
    /\ ding.result = FALSE

C26_Original ==
    \A i \in 1..Len(posted) :
        RatioBuckets(posted[i]["width"], posted[i]["height"])
            = {posted[i]["ratio"]}

\* C26: in every payload posted, the ratio is the overrides' ratio if they
\* have one, and otherwise the bucket of the estimated width divided by the
\* estimated height, whatever width and height the overrides put in the
\* payload; it is the bucket of the payload's own width and height when the
\* overrides have none of width, height and ratio.
C26_EstimatedRatio ==
    \A i \in 1..Len(posted) :
        /\ "ratio" \in OverrideKeys
              => posted[i]["ratio"] = custom_config.map["ratio"]
        /\ "ratio" \notin OverrideKeys
              => /\ posted[i]["ratio"] = dims.ratio
                 /\ RatioBuckets(dims.width, dims.height) = {posted[i]["ratio"]}
        /\ OverrideKeys \cap {"width", "height", "ratio"} = {}
              => RatioBuckets(posted[i]["width"], posted[i]["height"])
                    = {posted[i]["ratio"]}

\* the overrides are {"height": 900}: the payload has the estimated ratio,
\* which is not the bucket of its width and height
C26_Witness ==
    /\ posted # <<>>
    /\ custom_config = Config([height |-> 900])
    /\ posted[1]["height"] = 900
    /\ posted[1]["width"] = dims.width
    /\ posted[1]["ratio"] = dims.ratio
    /\ RatioBuckets(posted[1]["width"], posted[1]["height"])
          # {posted[1]["ratio"]}

\* how many times the call is in the log of the run
TimesCalled(call) == Cardinality({i \in 1..Len(run.log) : run.log[i] = call})

\* C25: in a run of main with email configured, at most one of send_success,
\* send_empty and send_error is called, whatever step fails.
C25_OneNotification ==
    run.email_enabled =>
        TimesCalled("send_success") + TimesCalled("send_empty")
            + TimesCalled("send_error") <= 1

====
